---- MODULE Spec2Model ----
(***************************************************************************)
(* A model of src/mem/process_memory_info.rs: the per-platform backends of *)
(* get_process_memory_info (Windows, Linux/Android, macOS/iOS), the        *)
(* Linux page-size cache behind std::sync::Once, and the threads calling   *)
(* the query.                                                              *)
(*                                                                         *)
(* Unsigned 64-bit values are kept at their full width.  TLC's integers    *)
(* are 32 bits wide, so a u64 is the little-endian sequence of its bytes   *)
(* (its limbs), and the arithmetic below is done limb by limb.  Text (the  *)
(* pseudo-file, error messages) is a sequence of one-character strings.    *)
(***************************************************************************)
EXTENDS Integers, Sequences, FiniteSets, TLC

\* ------------------------------------------------------------------------
\* Limb arithmetic on unsigned 64-bit integers

\* the width of the u64 of ProcessMemoryInfo's fields and of PAGE_SIZE
U64Bits == 64

\* a limb is a byte
LimbBase == 2 ^ 8

U64Limbs == U64Bits \div 8

\* n limbs of zero
ZeroLimbs(n) == [i \in 1..n |-> 0]

\* the u64 holding the small natural n (n < 2^31)
RECURSIVE LimbsOf(_, _)
LimbsOf(n, width) ==
    IF width = 0 THEN <<>>
    ELSE <<n % LimbBase>> \o LimbsOf(n \div LimbBase, width - 1)

U64(n) == LimbsOf(n, U64Limbs)

\* a * m + c for a limb sequence a and small naturals m, c (m, c < 2^16):
\* the limbs of the result, one limb longer than a (the last is the carry out)
RECURSIVE MulSmallAdd(_, _, _)
MulSmallAdd(a, m, c) ==
    IF a = <<>> THEN <<c>>
    ELSE LET t == Head(a) * m + c
         IN  <<t % LimbBase>> \o MulSmallAdd(Tail(a), m, t \div LimbBase)

\* a + b for limb sequences of the same length, with carry in c; one limb longer
RECURSIVE AddLimbs(_, _, _)
AddLimbs(a, b, c) ==
    IF a = <<>> THEN <<c>>
    ELSE LET t == Head(a) + Head(b) + c
         IN  <<t % LimbBase>> \o AddLimbs(Tail(a), Tail(b), t \div LimbBase)

\* the exact product of two limb sequences, Len(a) + Len(b) limbs wide
RECURSIVE MulLimbs(_, _)
MulLimbs(a, b) ==
    IF b = <<>> THEN ZeroLimbs(Len(a))
    ELSE LET row  == MulSmallAdd(a, Head(b), 0)
             rest == <<0>> \o MulLimbs(a, Tail(b))
             sum  == AddLimbs(row \o ZeroLimbs(Len(rest) - Len(row)), rest, 0)
         IN  SubSeq(sum, 1, Len(a) + Len(b))

IsZeroLimbs(a) == \A i \in 1..Len(a) : a[i] = 0

\* the low U64Limbs limbs of a wider value
LowU64(a) == SubSeq(a, 1, U64Limbs)

\* whether a wider value does not fit a u64
OverflowsU64(a) == ~IsZeroLimbs(SubSeq(a, U64Limbs + 1, Len(a)))

\* ------------------------------------------------------------------------
\* Text: splitting the pseudo-file and parsing a field (lines 90-98)

Digits == {"0", "1", "2", "3", "4", "5", "6", "7", "8", "9"}

\* char::to_digit(10) on an ASCII digit
DigitValue(c) ==
    CASE c = "0" -> 0 [] c = "1" -> 1 [] c = "2" -> 2 [] c = "3" -> 3
      [] c = "4" -> 4 [] c = "5" -> 5 [] c = "6" -> 6 [] c = "7" -> 7
      [] c = "8" -> 8 [] c = "9" -> 9

\* index of the first space of s, 0 when it has none
RECURSIVE FirstSpace(_, _)
FirstSpace(s, i) ==
    IF i > Len(s) THEN 0
    ELSE IF s[i] = " " THEN i
    ELSE FirstSpace(s, i + 1)

\* str::split(' '): the pieces between single spaces, empty pieces kept, no trimming
RECURSIVE Split(_)
Split(s) ==
    LET i == FirstSpace(s, 1)
    IN  IF i = 0 THEN <<s>>
        ELSE <<SubSeq(s, 1, i - 1)>> \o Split(SubSeq(s, i + 1, Len(s)))

\* Iterator::next on the split: the n-th piece, or None
NoneValue == [some |-> FALSE, val |-> ZeroLimbs(U64Limbs)]

SomeValue(v) == [some |-> TRUE, val |-> v]

\* the digit loop of u64::from_str: acc * 10 + digit with checked arithmetic;
\* None on a character that is no digit and on overflow of the u64
RECURSIVE ParseDigits(_, _)
ParseDigits(s, acc) ==
    IF s = <<>> THEN SomeValue(acc)
    ELSE IF Head(s) \notin Digits THEN NoneValue
    ELSE LET t == MulSmallAdd(acc, 10, DigitValue(Head(s)))
         IN  IF OverflowsU64(t) THEN NoneValue
             ELSE ParseDigits(Tail(s), LowU64(t))

\* str::parse::<u64>().ok(): empty input and a lone sign are errors, one leading
\* '+' is accepted, '-' is not (the type is unsigned)
ParseU64(s) ==
    IF s = <<>> THEN NoneValue
    ELSE IF s = <<"+">> \/ s = <<"-">> THEN NoneValue
    ELSE IF Head(s) = "+" THEN ParseDigits(Tail(s), ZeroLimbs(U64Limbs))
    ELSE ParseDigits(s, ZeroLimbs(U64Limbs))

\* str::trim: leading and trailing whitespace removed
RECURSIVE TrimStart(_)
TrimStart(s) ==
    IF s # <<>> /\ Head(s) \in {" ", "\t", "\n"} THEN TrimStart(Tail(s)) ELSE s

RECURSIVE TrimEnd(_)
TrimEnd(s) ==
    IF s # <<>> /\ s[Len(s)] \in {" ", "\t", "\n"}
    THEN TrimEnd(SubSeq(s, 1, Len(s) - 1)) ELSE s

\* Faulty variant of NextField: the piece is trimmed before it is parsed
NextFieldTrimmed(parts, n) ==
    IF n > Len(parts) THEN NoneValue ELSE ParseU64(TrimStart(TrimEnd(parts[n])))

\* parts.next().and_then(|s| s.parse().ok()) for the n-th call of next
NextField(parts, n) ==
    IF n > Len(parts) THEN NoneValue ELSE ParseU64(parts[n])

\* ------------------------------------------------------------------------
\* Values: ProcessMemoryInfo, io::Error, Result

\* ProcessMemoryInfo (lines 4-44) and its Default.  The record carries the fields
\* of every platform; a field the target's struct does not have stays zero.
DefaultInfo ==
    [resident_set_size      |-> ZeroLimbs(U64Limbs),
     resident_set_size_peak |-> ZeroLimbs(U64Limbs),
     virtual_memory_size    |-> ZeroLimbs(U64Limbs),
     phys_footprint         |-> ZeroLimbs(U64Limbs),
     compressed             |-> ZeroLimbs(U64Limbs)]

\* std::io::Error.  msg is a sequence of pieces: a string literal of the source is
\* one piece, formatted output is one piece per character.
NoError == [repr |-> "None", kind |-> "", code |-> 0, msg |-> <<>>]

\* Error::last_os_error() / an error of the OS with its raw code
OsError(code) == [repr |-> "Os", kind |-> "", code |-> code, msg |-> <<>>]

\* Error::new(kind, msg)
CustomError(kind, msg) == [repr |-> "Custom", kind |-> kind, code |-> 0, msg |-> msg]

\* an error the standard library builds from a kind and a fixed message
SimpleError(kind, msg) == [repr |-> "Simple", kind |-> kind, code |-> 0, msg |-> msg]

NoResult == [kind |-> "None", err |-> NoError, info |-> DefaultInfo]

Ok(info) == [kind |-> "Ok", err |-> NoError, info |-> info]

Err(e) == [kind |-> "Err", err |-> e, info |-> DefaultInfo]

\* the thread unwound out of the query with a panic
Panicked == [kind |-> "Panic", err |-> NoError, info |-> DefaultInfo]

\* ------------------------------------------------------------------------
\* The environment: what the OS may hand the query

NumThreads == 2

Threads == 1..NumThreads

\* the build targets of the cfg attributes (lines 46, 74, 111)
Platforms == {"windows", "linux", "darwin"}

\* what sysconf(_SC_PAGESIZE) reports on the machine, a C long
PageSizes == {4096, 65536}

\* Contents of /proc/self/statm the read may return, each written out character
\* by character; the comment above each gives it as a string.
\* ""
StatmEmpty ==
    <<>>

\* "abc 500"
StatmAbc ==
    <<"a", "b", "c", " ", "5", "0", "0">>

\* "1000"
StatmOneField ==
    <<"1", "0", "0", "0">>

\* "1000 500"
StatmTwoFields ==
    <<"1", "0", "0", "0", " ", "5", "0", "0">>

\* "1000 500 120 1 0 300 0\n"
StatmSevenFields ==
    <<"1", "0", "0", "0", " ", "5", "0", "0", " ", "1", "2", "0", " ", "1", " ", "0", " ", "3", "0", "0", " ", "0", "\n">>

\* "1000 500\n"
StatmTwoFieldsNewline ==
    <<"1", "0", "0", "0", " ", "5", "0", "0", "\n">>

\* "1000\n"
StatmOneFieldNewline ==
    <<"1", "0", "0", "0", "\n">>

\* " 1000 500"
StatmLeadingSpace ==
    <<" ", "1", "0", "0", "0", " ", "5", "0", "0">>

\* "1000  500"
StatmDoubleSpace ==
    <<"1", "0", "0", "0", " ", " ", "5", "0", "0">>

\* "1000\t500 7"
StatmTab ==
    <<"1", "0", "0", "0", "\t", "5", "0", "0", " ", "7">>

\* "268435456 16777216 0"
StatmRealistic ==
    <<"2", "6", "8", "4", "3", "5", "4", "5", "6", " ", "1", "6", "7", "7", "7", "2", "1", "6", " ", "0">>

\* "18446744073709551615 1"
StatmMaxPages ==
    <<"1", "8", "4", "4", "6", "7", "4", "4", "0", "7", "3", "7", "0", "9", "5", "5", "1", "6", "1", "5", " ", "1">>

\* "18446744073709551616 1"
StatmTooLarge ==
    <<"1", "8", "4", "4", "6", "7", "4", "4", "0", "7", "3", "7", "0", "9", "5", "5", "1", "6", "1", "6", " ", "1">>

\* "+7 3"
StatmPlus ==
    <<"+", "7", " ", "3">>

\* "-1 5"
StatmMinus ==
    <<"-", "1", " ", "5">>

\* "1 4503599627370496"
StatmHugeResident ==
    <<"1", " ", "4", "5", "0", "3", "5", "9", "9", "6", "2", "7", "3", "7", "0", "4", "9", "6">>

StatmContents ==
    {StatmEmpty,
     StatmAbc,
     StatmOneField,
     StatmTwoFields,
     StatmSevenFields,
     StatmTwoFieldsNewline,
     StatmOneFieldNewline,
     StatmLeadingSpace,
     StatmDoubleSpace,
     StatmTab,
     StatmRealistic,
     StatmMaxPages,
     StatmTooLarge,
     StatmPlus,
     StatmMinus,
     StatmHugeResident}

\* errors std::fs::read_to_string may return: ENOENT, EACCES, and the error of a
\* file that is not UTF-8
ReadErrors ==
    {OsError(2), OsError(13),
     SimpleError("InvalidData", <<"stream did not contain valid UTF-8">>)}

\* the outcome of one read_to_string call
ReadOk(text) == [ok |-> TRUE, text |-> text, err |-> NoError]

ReadErr(e) == [ok |-> FALSE, text |-> <<>>, err |-> e]

NotRead == [ok |-> FALSE, text |-> <<>>, err |-> NoError]

ReadOutcomes ==
    {ReadOk(c) : c \in StatmContents} \cup {ReadErr(e) : e \in ReadErrors}

\* ------------------------------------------------------------------------
\* Linux/Android backend: the pure parts of lines 76-109

\* `as u64` on the C long sysconf returns: the two's complement bits, zero- or
\* sign-extended to 64 bits
LongAsU64(n) ==
    IF n >= 0 THEN U64(n)
    ELSE [i \in 1..U64Limbs |-> (LimbBase - 1) - LimbsOf(-n - 1, U64Limbs)[i]]

\* Faulty variant of ReadFailed: the I/O error is replaced by one of the query's own
ReadFailedWrapped(e) ==
    Err(CustomError("Other", <<"cannot read /proc/self/statm">>))

\* the `?` after read_to_string (line 89): the error goes to the caller as it is
ReadFailed(e) == Err(e)

InvalidVmSize == CustomError("Other", <<"Invalid VmSize in /proc/self/statm">>)

InvalidVmRSS == CustomError("Other", <<"Invalid VmRSS in /proc/self/statm">>)

\* Faulty variant of ParseStatm: a missing or unparsable field counts as zero
ParseStatmDefaulting(text) ==
    LET parts  == Split(text)
        first  == NextField(parts, 1)
        second == NextField(parts, 2)
    IN  [ok |-> TRUE, err |-> NoError,
         virtual_memory_size_pages |-> first.val,
         resident_set_size_pages |-> second.val]

\* lines 90-104: split on ' ', take the first two pieces, parse each; the first
\* that is missing or unparsable decides the error
ParseStatm(text) ==
    LET parts  == Split(text)
        first  == NextField(parts, 1)
        second == NextField(parts, 2)
    IN  IF ~first.some
        THEN [ok |-> FALSE, err |-> InvalidVmSize,
              virtual_memory_size_pages |-> ZeroLimbs(U64Limbs),
              resident_set_size_pages |-> ZeroLimbs(U64Limbs)]
        ELSE IF ~second.some
        THEN [ok |-> FALSE, err |-> InvalidVmRSS,
              virtual_memory_size_pages |-> ZeroLimbs(U64Limbs),
              resident_set_size_pages |-> ZeroLimbs(U64Limbs)]
        ELSE [ok |-> TRUE, err |-> NoError,
              virtual_memory_size_pages |-> first.val,
              resident_set_size_pages |-> second.val]

NotParsed ==
    [ok |-> FALSE, err |-> NoError,
     virtual_memory_size_pages |-> ZeroLimbs(U64Limbs),
     resident_set_size_pages |-> ZeroLimbs(U64Limbs)]

\* Faulty variant of MulU64: the product is computed in 32 bits
MulU64Narrow(a, b, checks) ==
    LET wide == MulLimbs(a, b)
        half == U64Limbs \div 2
    IN  [panic |-> FALSE, val |-> SubSeq(wide, 1, half) \o ZeroLimbs(U64Limbs - half)]

\* the `*` of lines 106-107 on two u64: with overflow checks (a debug build) an
\* overflowing product panics, without them (a release build) it wraps
MulU64(a, b, checks) ==
    LET wide == MulLimbs(a, b)
    IN  [panic |-> checks /\ OverflowsU64(wide), val |-> LowU64(wide)]

\* Faulty variant of OnceBegin: the cell is not claimed before the initializer runs
OnceBeginUnclaimed(state) == state

\* Once::call_once, on finding the cell not yet started: the caller claims it
OnceBegin(state) == IF state = "INCOMPLETE" THEN "RUNNING" ELSE state

\* Faulty variant of OnceIsCompleted: a running initializer counts as finished
OnceIsCompletedEager(state) == state # "INCOMPLETE"

\* Once::is_completed, the fast path of call_once
OnceIsCompleted(state) == state = "COMPLETE"

\* ------------------------------------------------------------------------
\* Windows and Darwin backends: the pure parts of lines 47-72 and 112-152

\* PROCESS_MEMORY_COUNTERS as GetProcessMemoryInfo may fill it (the fields read)
WinCounters ==
    {[WorkingSetSize |-> U64(8192000), PeakWorkingSetSize |-> U64(9216000),
      PagefileUsage |-> U64(20480000)],
     [WorkingSetSize |-> U64(4096), PeakWorkingSetSize |-> U64(4096),
      PagefileUsage |-> U64(0)]}

\* what GetLastError reports after a failed GetProcessMemoryInfo
WinErrorCodes == {5, 6, 24}

\* the bits of a buffer never written, whatever they happen to be
WinGarbage ==
    WinCounters \cup
    {[WorkingSetSize |-> [i \in 1..U64Limbs |-> LimbBase - 1],
      PeakWorkingSetSize |-> U64(1), PagefileUsage |-> U64(2)]}

UninitCounters ==
    [init |-> FALSE, WorkingSetSize |-> ZeroLimbs(U64Limbs),
     PeakWorkingSetSize |-> ZeroLimbs(U64Limbs), PagefileUsage |-> ZeroLimbs(U64Limbs)]

FilledCounters(c) ==
    [init |-> TRUE, WorkingSetSize |-> c.WorkingSetSize,
     PeakWorkingSetSize |-> c.PeakWorkingSetSize, PagefileUsage |-> c.PagefileUsage]

\* `as u64` on a SIZE_T: zero extension to 64 bits
UsizeAsU64(x) == x \o ZeroLimbs(U64Limbs - Len(x))

\* Faulty variant of WinFailed: the return value is not checked
WinFailedNever(r) == FALSE

\* line 63: the call failed
WinFailed(r) == r = 0

\* lines 67-71
WinInfo(c) ==
    [DefaultInfo EXCEPT
        !.resident_set_size      = UsizeAsU64(c.WorkingSetSize),
        !.resident_set_size_peak = UsizeAsU64(c.PeakWorkingSetSize),
        !.virtual_memory_size    = UsizeAsU64(c.PagefileUsage)]

KERN_SUCCESS == 0

\* kern_return_t values task_info may return
KernReturns == {KERN_SUCCESS, 4, 5, 46, -308}

\* task_vm_info as task_info may fill it (the fields read)
TaskVmInfos ==
    {[resident_size |-> U64(3000000), resident_size_peak |-> U64(3500000),
      virtual_size |-> U64(420000000), phys_footprint |-> U64(2500000),
      compressed |-> U64(120000)],
     [resident_size |-> U64(16384), resident_size_peak |-> U64(16384),
      virtual_size |-> U64(32768), phys_footprint |-> U64(0),
      compressed |-> U64(0)]}

TaskVmGarbage ==
    TaskVmInfos \cup
    {[resident_size |-> [i \in 1..U64Limbs |-> LimbBase - 1],
      resident_size_peak |-> U64(1), virtual_size |-> U64(2),
      phys_footprint |-> U64(3), compressed |-> U64(4)]}

UninitTaskVmInfo ==
    [init |-> FALSE, resident_size |-> ZeroLimbs(U64Limbs),
     resident_size_peak |-> ZeroLimbs(U64Limbs), virtual_size |-> ZeroLimbs(U64Limbs),
     phys_footprint |-> ZeroLimbs(U64Limbs), compressed |-> ZeroLimbs(U64Limbs)]

FilledTaskVmInfo(v) ==
    [init |-> TRUE, resident_size |-> v.resident_size,
     resident_size_peak |-> v.resident_size_peak, virtual_size |-> v.virtual_size,
     phys_footprint |-> v.phys_footprint, compressed |-> v.compressed]

\* Display of a digit, and of an i32 (the {} of format!, line 141)
DigitChar(d) == CHOOSE c \in Digits : DigitValue(c) = d

RECURSIVE FormatNat(_)
FormatNat(n) ==
    IF n < 10 THEN <<DigitChar(n)>>
    ELSE FormatNat(n \div 10) \o <<DigitChar(n % 10)>>

FormatI32(n) == IF n < 0 THEN <<"-">> \o FormatNat(-n) ELSE FormatNat(n)

\* line 137: the call failed
DarwinFailed(k) == k # KERN_SUCCESS

\* Faulty variant of DarwinError: the message leaves the code out
DarwinErrorNoCode(k) == CustomError("Other", <<"DARWIN_KERN_RET_CODE:">>)

\* lines 139-142
DarwinError(k) ==
    CustomError("Other", <<"DARWIN_KERN_RET_CODE:">> \o FormatI32(k))

\* lines 145-151
DarwinInfo(v) ==
    [DefaultInfo EXCEPT
        !.resident_set_size      = v.resident_size,
        !.resident_set_size_peak = v.resident_size_peak,
        !.virtual_memory_size    = v.virtual_size,
        !.phys_footprint         = v.phys_footprint,
        !.compressed             = v.compressed]

\* ------------------------------------------------------------------------
\* State

VARIABLES
    platform,          \* the target the crate was built for
    overflow_checks,   \* whether the build checks arithmetic overflow
    os_page_size,      \* what sysconf(_SC_PAGESIZE) returns on this machine
    INIT,              \* page_size's static Once: INCOMPLETE, RUNNING, COMPLETE
    PAGE_SIZE,         \* page_size's static mut u64
    pc,                \* where each thread is in its query
    line,              \* Linux: the field expression being evaluated, 106 or 107
    statm,             \* Linux: what read_to_string returned to the thread
    pages,             \* Linux: the two parsed page counts
    ps,                \* Linux: what the thread's page_size() call returned
    info,              \* the ProcessMemoryInfo under construction
    result,            \* what the query returned to the thread
    ret,               \* Windows: GetProcessMemoryInfo's return value
    last_error,        \* Windows: the thread's GetLastError value
    process_memory_counters,  \* Windows: the MaybeUninit buffer
    kern_ret,          \* Darwin: task_info's return value
    task_vm_info,      \* Darwin: the MaybeUninit buffer
    sysconf_calls,     \* observer: sysconf calls made so far
    cache_writes,      \* observer: writes to PAGE_SIZE so far
    read_attempts,     \* observer: read_to_string calls of the thread's query
    parse_runs,        \* observer: runs of the parsing code in the thread's query
    uninit_reads       \* observer: reads of a buffer the OS never filled

shared == <<platform, overflow_checks, os_page_size, INIT, PAGE_SIZE>>

linux_locals == <<line, statm, pages, ps>>

ffi_locals == <<ret, last_error, process_memory_counters, kern_ret, task_vm_info>>

observers == <<sysconf_calls, cache_writes, read_attempts, parse_runs, uninit_reads>>

vars == <<shared, pc, linux_locals, info, result, ffi_locals, observers>>

Init ==
    /\ platform \in Platforms
    /\ overflow_checks \in BOOLEAN
    /\ os_page_size \in PageSizes
    /\ INIT = "INCOMPLETE"
    /\ PAGE_SIZE = ZeroLimbs(U64Limbs)
    /\ pc = [t \in Threads |-> "idle"]
    /\ line = [t \in Threads |-> 0]
    /\ statm = [t \in Threads |-> NotRead]
    /\ pages = [t \in Threads |-> NotParsed]
    /\ ps = [t \in Threads |-> ZeroLimbs(U64Limbs)]
    /\ info = [t \in Threads |-> DefaultInfo]
    /\ result = [t \in Threads |-> NoResult]
    /\ ret = [t \in Threads |-> 0]
    /\ last_error = [t \in Threads |-> 0]
    /\ process_memory_counters = [t \in Threads |-> UninitCounters]
    /\ kern_ret = [t \in Threads |-> 0]
    /\ task_vm_info = [t \in Threads |-> UninitTaskVmInfo]
    /\ sysconf_calls = 0
    /\ cache_writes = 0
    /\ read_attempts = [t \in Threads |-> 0]
    /\ parse_runs = [t \in Threads |-> 0]
    /\ uninit_reads = 0

\* ------------------------------------------------------------------------
\* Linux/Android: get_process_memory_info_impl (lines 87-109), page_size (76-84)

\* line 89: the one read of /proc/self/statm, whose outcome is one of `outcomes`;
\* a failure returns at once
ReadStatm(t, outcomes) ==
    /\ platform = "linux"
    /\ pc[t] = "idle"
    /\ \E o \in outcomes :
          /\ statm' = [statm EXCEPT ![t] = o]
          /\ IF o.ok
             THEN /\ pc' = [pc EXCEPT ![t] = "parse"]
                  /\ result' = result
             ELSE /\ pc' = [pc EXCEPT ![t] = "done"]
                  /\ result' = [result EXCEPT ![t] = ReadFailed(o.err)]
    /\ read_attempts' = [read_attempts EXCEPT ![t] = @ + 1]
    /\ UNCHANGED <<shared, line, pages, ps, info, ffi_locals,
                   sysconf_calls, cache_writes, parse_runs, uninit_reads>>

\* lines 90-104: split and parse; a malformed field returns its error
ParseFields(t) ==
    /\ pc[t] = "parse"
    /\ LET p == ParseStatm(statm[t].text)
       IN  /\ pages' = [pages EXCEPT ![t] = p]
           /\ IF p.ok
              THEN /\ pc' = [pc EXCEPT ![t] = "call_once"]
                   /\ line' = [line EXCEPT ![t] = 106]
                   /\ result' = result
              ELSE /\ pc' = [pc EXCEPT ![t] = "done"]
                   /\ line' = line
                   /\ result' = [result EXCEPT ![t] = Err(p.err)]
    /\ parse_runs' = [parse_runs EXCEPT ![t] = @ + 1]
    /\ UNCHANGED <<shared, statm, ps, info, ffi_locals,
                   sysconf_calls, cache_writes, read_attempts, uninit_reads>>

\* line 81, INIT.call_once: return at once when the cell is complete, claim it
\* when nobody has, and block while another thread runs the initializer
CallOnce(t) ==
    /\ pc[t] = "call_once"
    /\ IF OnceIsCompleted(INIT)
       THEN /\ pc' = [pc EXCEPT ![t] = "load"]
            /\ INIT' = INIT
       ELSE /\ INIT = "INCOMPLETE"
            /\ INIT' = OnceBegin(INIT)
            /\ pc' = [pc EXCEPT ![t] = "closure"]
    /\ UNCHANGED <<platform, overflow_checks, os_page_size, PAGE_SIZE,
                   linux_locals, info, result, ffi_locals, observers>>

\* line 81, the closure: PAGE_SIZE = sysconf(_SC_PAGESIZE) as u64
RunInitializer(t) ==
    /\ pc[t] = "closure"
    /\ PAGE_SIZE' = LongAsU64(os_page_size)
    /\ sysconf_calls' = sysconf_calls + 1
    /\ cache_writes' = cache_writes + 1
    /\ pc' = [pc EXCEPT ![t] = "complete"]
    /\ UNCHANGED <<platform, overflow_checks, os_page_size, INIT,
                   linux_locals, info, result, ffi_locals,
                   read_attempts, parse_runs, uninit_reads>>

\* line 81, the end of call_once: the cell is marked complete, waiters go on
CompleteOnce(t) ==
    /\ pc[t] = "complete"
    /\ INIT' = "COMPLETE"
    /\ pc' = [pc EXCEPT ![t] = "load"]
    /\ UNCHANGED <<platform, overflow_checks, os_page_size, PAGE_SIZE,
                   linux_locals, info, result, ffi_locals, observers>>

\* line 82: page_size returns the static
LoadPageSize(t) ==
    /\ pc[t] = "load"
    /\ ps' = [ps EXCEPT ![t] = PAGE_SIZE]
    /\ pc' = [pc EXCEPT ![t] = "multiply"]
    /\ UNCHANGED <<shared, line, statm, pages, info, result, ffi_locals, observers>>

\* lines 106 and 107: pages * page_size(), then the next field or Ok(..)
Multiply(t) ==
    /\ pc[t] = "multiply"
    /\ LET count == IF line[t] = 106 THEN pages[t].virtual_memory_size_pages
                    ELSE pages[t].resident_set_size_pages
           m     == MulU64(count, ps[t], overflow_checks)
       IN  IF m.panic
           THEN /\ pc' = [pc EXCEPT ![t] = "done"]
                /\ result' = [result EXCEPT ![t] = Panicked]
                /\ UNCHANGED <<line, info>>
           ELSE IF line[t] = 106
           THEN /\ info' = [info EXCEPT ![t].virtual_memory_size = m.val]
                /\ line' = [line EXCEPT ![t] = 107]
                /\ pc' = [pc EXCEPT ![t] = "call_once"]
                /\ result' = result
           ELSE /\ info' = [info EXCEPT ![t].resident_set_size = m.val]
                /\ result' = [result EXCEPT ![t] =
                                 Ok([info[t] EXCEPT !.resident_set_size = m.val])]
                /\ pc' = [pc EXCEPT ![t] = "done"]
                /\ line' = line
    /\ UNCHANGED <<shared, statm, pages, ps, ffi_locals, observers>>

\* ------------------------------------------------------------------------
\* Windows: get_process_memory_info_impl (lines 47-72)

\* lines 52-62: the buffer is created uninitialized and handed to the OS, which
\* fills it and returns nonzero, or fails, returns zero and sets the last error
WinCall(t) ==
    /\ platform = "windows"
    /\ pc[t] = "idle"
    /\ \/ \E c \in WinCounters :
            /\ process_memory_counters' =
                   [process_memory_counters EXCEPT ![t] = FilledCounters(c)]
            /\ ret' = [ret EXCEPT ![t] = 1]
            /\ last_error' = last_error
       \/ \E e \in WinErrorCodes :
            /\ process_memory_counters' =
                   [process_memory_counters EXCEPT ![t] = UninitCounters]
            /\ ret' = [ret EXCEPT ![t] = 0]
            /\ last_error' = [last_error EXCEPT ![t] = e]
    /\ pc' = [pc EXCEPT ![t] = "win_check"]
    /\ UNCHANGED <<shared, linux_locals, info, result, kern_ret, task_vm_info,
                   observers>>

\* lines 63-65: a zero return becomes Err(Error::last_os_error())
WinCheck(t) ==
    /\ pc[t] = "win_check"
    /\ IF WinFailed(ret[t])
       THEN /\ result' = [result EXCEPT ![t] = Err(OsError(last_error[t]))]
            /\ pc' = [pc EXCEPT ![t] = "done"]
       ELSE /\ result' = result
            /\ pc' = [pc EXCEPT ![t] = "win_assume_init"]
    /\ UNCHANGED <<shared, linux_locals, info, ffi_locals, observers>>

\* lines 66-71: assume_init and the copy into ProcessMemoryInfo; reading a
\* buffer the OS never filled yields whatever bits it holds
WinCopy(t) ==
    /\ pc[t] = "win_assume_init"
    /\ \E c \in (IF process_memory_counters[t].init
                 THEN {process_memory_counters[t]} ELSE WinGarbage) :
          /\ info' = [info EXCEPT ![t] = WinInfo(c)]
          /\ result' = [result EXCEPT ![t] = Ok(WinInfo(c))]
    /\ uninit_reads' =
           uninit_reads + (IF process_memory_counters[t].init THEN 0 ELSE 1)
    /\ pc' = [pc EXCEPT ![t] = "done"]
    /\ UNCHANGED <<shared, linux_locals, ffi_locals,
                   sysconf_calls, cache_writes, read_attempts, parse_runs>>

\* ------------------------------------------------------------------------
\* Darwin: get_process_memory_info_impl (lines 112-152)

\* lines 120-136: the buffer is created uninitialized and handed to task_info,
\* which fills it and returns KERN_SUCCESS, or returns another code
DarwinCall(t) ==
    /\ platform = "darwin"
    /\ pc[t] = "idle"
    /\ \E k \in KernReturns :
          /\ kern_ret' = [kern_ret EXCEPT ![t] = k]
          /\ IF k = KERN_SUCCESS
             THEN \E v \in TaskVmInfos :
                     task_vm_info' = [task_vm_info EXCEPT ![t] = FilledTaskVmInfo(v)]
             ELSE task_vm_info' = [task_vm_info EXCEPT ![t] = UninitTaskVmInfo]
    /\ pc' = [pc EXCEPT ![t] = "darwin_check"]
    /\ UNCHANGED <<shared, linux_locals, info, result, ret, last_error,
                   process_memory_counters, observers>>

\* lines 137-143: any other code becomes an error that carries the code
DarwinCheck(t) ==
    /\ pc[t] = "darwin_check"
    /\ IF DarwinFailed(kern_ret[t])
       THEN /\ result' = [result EXCEPT ![t] = Err(DarwinError(kern_ret[t]))]
            /\ pc' = [pc EXCEPT ![t] = "done"]
       ELSE /\ result' = result
            /\ pc' = [pc EXCEPT ![t] = "darwin_assume_init"]
    /\ UNCHANGED <<shared, linux_locals, info, ffi_locals, observers>>

\* lines 144-151: assume_init and the copy into ProcessMemoryInfo
DarwinCopy(t) ==
    /\ pc[t] = "darwin_assume_init"
    /\ \E v \in (IF task_vm_info[t].init THEN {task_vm_info[t]} ELSE TaskVmGarbage) :
          /\ info' = [info EXCEPT ![t] = DarwinInfo(v)]
          /\ result' = [result EXCEPT ![t] = Ok(DarwinInfo(v))]
    /\ uninit_reads' = uninit_reads + (IF task_vm_info[t].init THEN 0 ELSE 1)
    /\ pc' = [pc EXCEPT ![t] = "done"]
    /\ UNCHANGED <<shared, linux_locals, ffi_locals,
                   sysconf_calls, cache_writes, read_attempts, parse_runs>>

\* ------------------------------------------------------------------------
\* The caller

\* get_process_memory_info has returned (lines 154-156); the caller takes the
\* Result and the query's locals are gone.  A thread that panicked does not return.
Return(t) ==
    /\ pc[t] = "done"
    /\ result[t].kind # "Panic"
    /\ pc' = [pc EXCEPT ![t] = "idle"]
    /\ line' = [line EXCEPT ![t] = 0]
    /\ statm' = [statm EXCEPT ![t] = NotRead]
    /\ pages' = [pages EXCEPT ![t] = NotParsed]
    /\ ps' = [ps EXCEPT ![t] = ZeroLimbs(U64Limbs)]
    /\ info' = [info EXCEPT ![t] = DefaultInfo]
    /\ result' = [result EXCEPT ![t] = NoResult]
    /\ ret' = [ret EXCEPT ![t] = 0]
    /\ process_memory_counters' = [process_memory_counters EXCEPT ![t] = UninitCounters]
    /\ kern_ret' = [kern_ret EXCEPT ![t] = 0]
    /\ task_vm_info' = [task_vm_info EXCEPT ![t] = UninitTaskVmInfo]
    /\ read_attempts' = [read_attempts EXCEPT ![t] = 0]
    /\ parse_runs' = [parse_runs EXCEPT ![t] = 0]
    /\ UNCHANGED <<shared, last_error, sysconf_calls, cache_writes, uninit_reads>>

\* one step of thread t, the pseudo-file read returning one of `outcomes`
Step(t, outcomes) ==
    \/ ReadStatm(t, outcomes)
    \/ ParseFields(t)
    \/ CallOnce(t)
    \/ RunInitializer(t)
    \/ CompleteOnce(t)
    \/ LoadPageSize(t)
    \/ Multiply(t)
    \/ WinCall(t)
    \/ WinCheck(t)
    \/ WinCopy(t)
    \/ DarwinCall(t)
    \/ DarwinCheck(t)
    \/ DarwinCopy(t)
    \/ Return(t)

\* One caller, querying again and again, every pseudo-file content and read
\* error in play.
MainThread == CHOOSE t \in Threads : \A u \in Threads : t <= u

Next == Step(MainThread, ReadOutcomes)

Spec == Init /\ [][Next]_vars

\* NumThreads callers, querying concurrently and repeatedly: the first-use race
\* on the page-size cache.  The reads return one of a few outcomes that between
\* them reach every return of the query.
RaceOutcomes ==
    {ReadOk(StatmSevenFields), ReadOk(StatmHugeResident),
     ReadOk(StatmOneFieldNewline), ReadErr(OsError(2))}

NextThreads == \E t \in Threads : Step(t, RaceOutcomes)

SpecThreads == Init /\ [][NextThreads]_vars

\* ------------------------------------------------------------------------
\* Properties

\* 2^k as a number of `width` limbs
Pow2Limbs(k, width) ==
    [i \in 1..width |-> IF i = (k \div 8) + 1 THEN 2 ^ (k % 8) ELSE 0]

\* a <= b for limb sequences of the same length
RECURSIVE LeqLimbs(_, _)
LeqLimbs(a, b) ==
    IF a = <<>> THEN TRUE
    ELSE IF a[Len(a)] # b[Len(b)] THEN a[Len(a)] < b[Len(b)]
    ELSE LeqLimbs(SubSeq(a, 1, Len(a) - 1), SubSeq(b, 1, Len(b) - 1))

\* a u64 as a number twice as wide, to compare with an exact product
Wide(a) == a \o ZeroLimbs(U64Limbs)

\* the mathematical product pages * page size of the machine, never truncated
ExactBytes(count) == MulLimbs(count, LongAsU64(os_page_size))

\* 2^40 bytes, twice as wide as a u64
RealisticLimit == Pow2Limbs(40, 2 * U64Limbs)

\* thread t's query on Linux has returned after a successful read
LinuxReturned(t) == platform = "linux" /\ pc[t] = "done" /\ statm[t].ok

\* the value a decimal text denotes (a small integer, with an optional '-')
RECURSIVE DecimalValue(_, _)
DecimalValue(s, acc) ==
    IF s = <<>> THEN acc
    ELSE DecimalValue(Tail(s), acc * 10 + DigitValue(Head(s)))

SignedDecimalValue(s) ==
    IF Head(s) = "-" THEN 0 - DecimalValue(Tail(s), 0) ELSE DecimalValue(s, 0)

\* a piece of the pseudo-file that is empty or holds a tab or a newline
Blank(piece) ==
    piece = <<>> \/ \E i \in 1..Len(piece) : piece[i] \in {"\t", "\n"}

\* C1: on Linux, whenever the first two space-separated tokens of the pseudo-file
\* parse as u64 values V and R, the query returns Ok with virtual_memory_size =
\* V * page_size and resident_set_size = R * page_size (the exact products),
\* whatever follows the second token; "1000 500 ..." with page size 4096 gives
\* 4096000 and 2048000.
C1_SuccessPath ==
    \A t \in Threads :
        LinuxReturned(t) /\ ParseStatm(statm[t].text).ok =>
            LET p == ParseStatm(statm[t].text)
            IN  /\ result[t].kind = "Ok"
                /\ Wide(result[t].info.virtual_memory_size)
                       = ExactBytes(p.virtual_memory_size_pages)
                /\ Wide(result[t].info.resident_set_size)
                       = ExactBytes(p.resident_set_size_pages)

\* C2: on Linux, a first token that is missing or does not parse gives the error
\* naming VmSize; otherwise a second token that is missing or does not parse
\* gives the error naming VmRSS; neither case returns a ProcessMemoryInfo.  Empty
\* input and "abc 500" give the VmSize error, "1000" the VmRSS error.
C2_MalformedFields ==
    \A t \in Threads :
        LinuxReturned(t) =>
            LET parts  == Split(statm[t].text)
                first  == NextField(parts, 1)
                second == NextField(parts, 2)
            IN  /\ ~first.some => result[t] = Err(InvalidVmSize)
                /\ first.some /\ ~second.some => result[t] = Err(InvalidVmRSS)
                /\ statm[t].text \in {StatmEmpty, StatmAbc}
                       => result[t] = Err(InvalidVmSize)
                /\ statm[t].text = StatmOneField => result[t] = Err(InvalidVmRSS)

C2_Witness ==
    \E t \in Threads :
        /\ LinuxReturned(t)
        /\ statm[t].text = StatmOneField
        /\ result[t] = Err(InvalidVmRSS)

\* C3: however the threads interleave, sysconf is called once and PAGE_SIZE is
\* written once in the life of the process, and every page_size() call of every
\* thread returns the value that one call wrote, never the initial 0.
C3_PageSizeOnce ==
    /\ sysconf_calls <= 1
    /\ cache_writes <= 1
    /\ \A t \in Threads :
          pc[t] = "multiply" =>
              /\ sysconf_calls = 1
              /\ cache_writes = 1
              /\ ps[t] = LongAsU64(os_page_size)
              /\ ps[t] # ZeroLimbs(U64Limbs)
              /\ \A u \in Threads : pc[u] = "multiply" => ps[u] = ps[t]

C3_Witness ==
    /\ sysconf_calls = 1
    /\ \A t \in Threads : pc[t] = "multiply" /\ line[t] = 106
    /\ \A t \in Threads : ps[t] = LongAsU64(os_page_size)

\* C4: on Windows a zero return of GetProcessMemoryInfo, and on Darwin a return
\* of task_info other than KERN_SUCCESS, make the query return an error, never
\* Ok, and the error holds the native code: the thread's last OS error code on
\* Windows, the kernel return code in decimal on Darwin.
C4_NativeFailure ==
    \A t \in Threads :
        pc[t] = "done" =>
            /\ platform = "windows" /\ ret[t] = 0 =>
                   /\ result[t].kind = "Err"
                   /\ result[t].err.repr = "Os"
                   /\ result[t].err.code = last_error[t]
                   /\ last_error[t] \in WinErrorCodes
            /\ platform = "darwin" /\ kern_ret[t] # KERN_SUCCESS =>
                   /\ result[t].kind = "Err"
                   /\ Len(result[t].err.msg) >= 2
                   /\ Head(result[t].err.msg) = "DARWIN_KERN_RET_CODE:"
                   /\ SignedDecimalValue(Tail(result[t].err.msg)) = kern_ret[t]

C4_Witness ==
    \E t \in Threads :
        /\ platform = "darwin"
        /\ pc[t] = "done"
        /\ kern_ret[t] = -308
        /\ result[t].kind = "Err"
        /\ Tail(result[t].err.msg) = <<"-", "3", "0", "8">>

\* C5: on Linux, when pages * page_size is at most 2^40 for both fields the
\* query returns Ok, and a returned field whose exact product is at most 2^40
\* equals that product: nothing overflowed or wrapped.
C5_NoWrapRealistic ==
    \A t \in Threads :
        LinuxReturned(t) /\ ParseStatm(statm[t].text).ok =>
            LET p  == ParseStatm(statm[t].text)
                ev == ExactBytes(p.virtual_memory_size_pages)
                er == ExactBytes(p.resident_set_size_pages)
            IN  /\ LeqLimbs(ev, RealisticLimit) /\ LeqLimbs(er, RealisticLimit)
                       => result[t].kind = "Ok"
                /\ result[t].kind = "Ok" /\ LeqLimbs(ev, RealisticLimit)
                       => Wide(result[t].info.virtual_memory_size) = ev
                /\ result[t].kind = "Ok" /\ LeqLimbs(er, RealisticLimit)
                       => Wide(result[t].info.resident_set_size) = er

C5_Witness ==
    \E t \in Threads :
        /\ LinuxReturned(t)
        /\ statm[t].text = StatmRealistic
        /\ os_page_size = 4096
        /\ result[t].kind = "Ok"
        /\ Wide(result[t].info.virtual_memory_size) = RealisticLimit

\* C6: whatever the pseudo-file holds, whatever the read, the page size and the
\* OS calls return, the query ends with Ok(snapshot) or a typed Err, never a
\* panic.
C6_NoPanic ==
    \A t \in Threads : pc[t] = "done" => result[t].kind \in {"Ok", "Err"}

\* what a step may do to the statics: PAGE_SIZE is written only by the running
\* initializer, and only once; a complete cell and its value never change again;
\* the build and the machine stay what they are
CacheWrittenOnce ==
    /\ UNCHANGED <<platform, overflow_checks, os_page_size>>
    /\ PAGE_SIZE' # PAGE_SIZE => INIT = "RUNNING" /\ cache_writes = 0
    /\ INIT = "COMPLETE" => UNCHANGED <<INIT, PAGE_SIZE>>
    /\ platform # "linux" => UNCHANGED <<INIT, PAGE_SIZE>>

\* a step of one thread leaves the other threads' snapshots and results alone
OthersUntouched ==
    \A t \in Threads :
        result'[t] # result[t] \/ info'[t] # info[t] =>
            \A u \in Threads \ {t} : result'[u] = result[u] /\ info'[u] = info[u]

\* a returned Linux snapshot is the page counts read in that call times the
\* cached page size, and two calls that read the same text return the same
\* Result, whenever and on whichever thread they ran
SnapshotFromOwnRead ==
    \A t \in Threads :
        /\ LinuxReturned(t) /\ result[t].kind = "Ok" =>
               LET p == ParseStatm(statm[t].text)
               IN  /\ INIT = "COMPLETE"
                   /\ result[t].info.virtual_memory_size
                          = LowU64(MulLimbs(p.virtual_memory_size_pages, PAGE_SIZE))
                   /\ result[t].info.resident_set_size
                          = LowU64(MulLimbs(p.resident_set_size_pages, PAGE_SIZE))
        /\ \A u \in Threads :
               pc[t] = "done" /\ pc[u] = "done" /\ statm[t] = statm[u]
               /\ platform = "linux"
                   => result[t] = result[u]

\* C7: across any interleaving of queries the only process-wide state that
\* changes is the page-size cache, written once; each call's snapshot depends
\* only on what that call read and on the cached page size, not on earlier or
\* concurrent calls.
C7_NoSideEffects ==
    /\ [][CacheWrittenOnce /\ OthersUntouched]_vars
    /\ []SnapshotFromOwnRead

C7_Witness ==
    \E t, u \in Threads :
        /\ t # u
        /\ platform = "linux"
        /\ pc[t] = "done" /\ pc[u] = "done"
        /\ statm[t] = ReadOk(StatmSevenFields) /\ statm[u] = statm[t]
        /\ result[t].kind = "Ok" /\ result[u] = result[t]
        /\ cache_writes = 1

\* C8: on Linux each query reads /proc/self/statm exactly once; when that read
\* fails the query returns the I/O error as it is, without a second read,
\* without parsing and without a snapshot.
C8_ReadOnceNoRetry ==
    \A t \in Threads :
        platform = "linux" =>
            /\ read_attempts[t] <= 1
            /\ pc[t] # "idle" => read_attempts[t] = 1
            /\ pc[t] = "done" /\ ~statm[t].ok =>
                   /\ result[t].kind = "Err"
                   /\ result[t].err = statm[t].err
                   /\ statm[t].err \in ReadErrors
                   /\ parse_runs[t] = 0
                   /\ info[t] = DefaultInfo

C8_Witness ==
    \E t \in Threads :
        /\ platform = "linux"
        /\ pc[t] = "done"
        /\ statm[t] = ReadErr(OsError(13))
        /\ result[t] = Err(OsError(13))
        /\ read_attempts[t] = 1

\* C9: on Windows and Darwin the native buffer is read only after the OS call
\* has returned success, and never after a failure; on success its fields are
\* copied one to one into the ProcessMemoryInfo.
C9_BufferReadAfterSuccess ==
    /\ uninit_reads = 0
    /\ \A t \in Threads :
          /\ pc[t] = "win_assume_init" =>
                 ret[t] # 0 /\ process_memory_counters[t].init
          /\ pc[t] = "darwin_assume_init" =>
                 kern_ret[t] = KERN_SUCCESS /\ task_vm_info[t].init
          /\ pc[t] = "done" /\ platform = "windows" =>
                 /\ result[t].kind = "Ok" <=> ret[t] # 0
                 /\ result[t].kind = "Ok" =>
                        /\ process_memory_counters[t].init
                        /\ result[t].info.resident_set_size
                               = process_memory_counters[t].WorkingSetSize
                        /\ result[t].info.resident_set_size_peak
                               = process_memory_counters[t].PeakWorkingSetSize
                        /\ result[t].info.virtual_memory_size
                               = process_memory_counters[t].PagefileUsage
          /\ pc[t] = "done" /\ platform = "darwin" =>
                 /\ result[t].kind = "Ok" <=> kern_ret[t] = KERN_SUCCESS
                 /\ result[t].kind = "Ok" =>
                        /\ task_vm_info[t].init
                        /\ result[t].info.resident_set_size
                               = task_vm_info[t].resident_size
                        /\ result[t].info.resident_set_size_peak
                               = task_vm_info[t].resident_size_peak
                        /\ result[t].info.virtual_memory_size
                               = task_vm_info[t].virtual_size
                        /\ result[t].info.phys_footprint
                               = task_vm_info[t].phys_footprint
                        /\ result[t].info.compressed = task_vm_info[t].compressed

C9_Witness ==
    \E t \in Threads :
        /\ platform = "windows"
        /\ pc[t] = "done"
        /\ ret[t] # 0
        /\ result[t].kind = "Ok"
        /\ result[t].info.resident_set_size = U64(8192000)
        /\ result[t].info.resident_set_size_peak = U64(9216000)
        /\ result[t].info.virtual_memory_size = U64(20480000)

\* C10: on Linux the pieces are cut at single spaces only and are not trimmed,
\* so a piece that is empty or holds a tab or a newline is malformed: as the first
\* piece it gives the VmSize error, as the second (after a well-formed first) the
\* VmRSS error.  "1000 500\n" gives the VmRSS error, "1000\n" the VmSize error.
C10_NoTrimming ==
    \A t \in Threads :
        LinuxReturned(t) =>
            LET text  == statm[t].text
                parts == Split(text)
            IN  /\ Blank(parts[1]) => result[t] = Err(InvalidVmSize)
                /\ (/\ NextField(parts, 1).some
                    /\ Len(parts) >= 2
                    /\ Blank(parts[2]))
                       => result[t] = Err(InvalidVmRSS)
                /\ text = StatmTwoFieldsNewline => result[t] = Err(InvalidVmRSS)
                /\ text \in {StatmOneFieldNewline, StatmTab, StatmLeadingSpace}
                       => result[t] = Err(InvalidVmSize)
                /\ text = StatmDoubleSpace => result[t] = Err(InvalidVmRSS)

C10_Witness ==
    \E t \in Threads :
        /\ LinuxReturned(t)
        /\ statm[t].text = StatmTwoFieldsNewline
        /\ result[t] = Err(InvalidVmRSS)

====
